---- MODULE Spec2Model ----
(***************************************************************************)
(* Model of tox.py: the toc tokenizer, the page offset step, the tree      *)
(* builder, the pdfmark emitter and the chunked file writer.               *)
(*                                                                         *)
(* A Python str is a sequence of one-character strings.  The literal       *)
(* fragments of the two pdfmark format strings are kept as single elements *)
(* of such a sequence.  A page value carries its Python type: the          *)
(* tokenizer yields the regex group (a str), apply_page_offset an int.     *)
(***************************************************************************)
EXTENDS Integers, Sequences, FiniteSets, TLC

VARIABLES
    pc,             \* position of the run
    file,           \* tokenize: the lines of the toc file
    pos,            \* tokenize: number of lines consumed by the for loop
    prev_num,       \* tokenize: local prev_num
    cnt,            \* tokenize: local cnt
    recs,           \* tokenize: the records yielded so far
    offset,         \* apply_page_offset: the offset argument
    flat,           \* main: flat, also the records argument of tree_ize
    find_children,  \* tree_ize: the find_children argument (by name)
    tree,           \* main: tree
    lines,          \* wite_pdfmark_file: lines
    outfile,        \* wite_pdfmark_file: the outfile argument
    chunksize,      \* wite_pdfmark_file: the chunksize argument
    fs              \* the files written: name -> lines

vars == <<pc, file, pos, prev_num, cnt, recs, offset, flat, find_children,
          tree, lines, outfile, chunksize, fs>>

tokvars == <<file, pos, prev_num, cnt, recs, offset>>
treevars == <<find_children, tree, lines, outfile, chunksize, fs>>

-----------------------------------------------------------------------------
(* Bounds of the model *)

MaxLines == 4

MaxRecs == 3

MaxChunk == 4

-----------------------------------------------------------------------------
(* Python values *)

None == [type |-> "NoneType"]

PyStr(s) == [type |-> "str", val |-> s]

PyInt(i) == [type |-> "int", val |-> i]

DigitChars == <<"0", "1", "2", "3", "4", "5", "6", "7", "8", "9">>

IsDigit(c) == \E d \in 1..10 : DigitChars[d] = c

DigitVal(c) == (CHOOSE d \in 1..10 : DigitChars[d] = c) - 1

IsUpper(c) ==
    c \in {"A", "B", "C", "D", "E", "F", "G", "H", "I", "J", "K", "L", "M",
           "N", "O", "P", "Q", "R", "S", "T", "U", "V", "W", "X", "Y", "Z"}

IsSpace(c) == c \in {" ", "\t"}

RECURSIVE NatToStr(_)
NatToStr(n) ==
    IF n < 10 THEN <<DigitChars[n + 1]>>
    ELSE NatToStr(n \div 10) \o <<DigitChars[(n % 10) + 1]>>

\* str(i), and "{}".format(i), of an int
IntToStr(i) == IF i < 0 THEN <<"-">> \o NatToStr(0 - i) ELSE NatToStr(i)

RECURSIVE StrToNat(_)
StrToNat(s) ==
    IF Len(s) = 0 THEN 0
    ELSE 10 * StrToNat(SubSeq(s, 1, Len(s) - 1)) + DigitVal(s[Len(s)])

\* int(s) of a decimal string, with an optional sign
StrToInt(s) == IF s[1] = "-" THEN 0 - StrToNat(Tail(s)) ELSE StrToNat(s)

\* "{}".format(v)
PyFormat(v) == IF v.type = "int" THEN IntToStr(v.val) ELSE v.val

\* s.startswith(p)
StartsWith(s, p) == Len(p) <= Len(s) /\ SubSeq(s, 1, Len(p)) = p

-----------------------------------------------------------------------------
(* tokenize: the two patterns.  A line is modelled without its terminator: *)
(* $ matches before a trailing newline, and no group can match it.         *)

NoMatch == <<>>

\* (?:[A-Z]\.)?[0-9.]* matches all of s
NumPat(s) ==
    LET body(t) == \A k \in 1..Len(t) : IsDigit(t[k]) \/ t[k] = "."
    IN  \/ body(s)
        \/ Len(s) >= 2 /\ IsUpper(s[1]) /\ s[2] = "."
                       /\ body(SubSeq(s, 3, Len(s)))

AllDigits(line, from) ==
    from <= Len(line) /\ \A k \in from..Len(line) : IsDigit(line[k])

\* re.match(reg, line).groups(): s[1] and s[2] are the places of the two \s,
\* the greedy groups take the longest match first
reg_match(line) ==
    LET firsts == {i \in 1..Len(line) :
                      IsSpace(line[i]) /\ NumPat(SubSeq(line, 1, i - 1))}
        lasts == {j \in 1..Len(line) :
                      IsSpace(line[j]) /\ AllDigits(line, j + 1)}
        splits == {s \in firsts \X lasts : s[2] > s[1]}
    IN  IF splits = {} THEN NoMatch
        ELSE LET s == CHOOSE s \in splits : \A t \in splits :
                          s[1] > t[1] \/ (s[1] = t[1] /\ s[2] >= t[2])
             IN  <<SubSeq(line, 1, s[1] - 1),
                   SubSeq(line, s[1] + 1, s[2] - 1),
                   SubSeq(line, s[2] + 1, Len(line))>>

\* re.match(alt, line).groups()
alt_match(line) ==
    LET splits == {j \in 1..Len(line) :
                      IsSpace(line[j]) /\ AllDigits(line, j + 1)}
    IN  IF splits = {} THEN NoMatch
        ELSE LET j == CHOOSE j \in splits : \A t \in splits : j >= t
             IN  <<SubSeq(line, 1, j - 1), SubSeq(line, j + 1, Len(line))>>

\* The three outcomes of one pass of the for loop, on the state
\* [prev_num, cnt, out] where out is what the pass yields (<<>> if nothing)

primary_branch(st, line) ==
    LET g == reg_match(line)
    IN  [prev_num |-> g[1], cnt |-> 1,
         out |-> <<<<g[1], g[2], PyStr(g[3])>>>>]

\* fallback_branch with the increment of cnt left out
fallback_branch_stuck(st, line) ==
    LET g == alt_match(line)
        num == st.prev_num \o <<".">> \o IntToStr(st.cnt)
    IN  [prev_num |-> st.prev_num, cnt |-> st.cnt,
         out |-> <<<<num, g[1], PyStr(g[2])>>>>]

fallback_branch(st, line) ==
    LET g == alt_match(line)
        num == st.prev_num \o <<".">> \o IntToStr(st.cnt)
    IN  [prev_num |-> st.prev_num, cnt |-> st.cnt + 1,
         out |-> <<<<num, g[1], PyStr(g[2])>>>>]

\* skip_branch where a skipped line still counts as a subchapter
skip_branch_counting(st, line) ==
    [prev_num |-> st.prev_num, cnt |-> st.cnt + 1, out |-> <<>>]

skip_branch(st, line) ==
    [prev_num |-> st.prev_num, cnt |-> st.cnt, out |-> <<>>]

loop_body(st, line) ==
    IF reg_match(line) # NoMatch THEN primary_branch(st, line)
    ELSE IF alt_match(line) # NoMatch THEN fallback_branch(st, line)
    ELSE skip_branch(st, line)

RECURSIVE tokenize(_)
\* list(tokenize(f)) with its final local state
tokenize(f) ==
    IF Len(f) = 0 THEN [prev_num |-> <<>>, cnt |-> 1, out |-> <<>>]
    ELSE LET before == tokenize(SubSeq(f, 1, Len(f) - 1))
             step == loop_body(before, f[Len(f)])
         IN  [prev_num |-> step.prev_num, cnt |-> step.cnt,
              out |-> before.out \o step.out]

\* apply_page_offset that loses the title: it yields (num, page, page)
apply_page_offset_no_title(records, off) ==
    [k \in 1..Len(records) |->
        <<records[k][1], records[k][3].val,
          PyInt(StrToInt(records[k][3].val) + off)>>]

\* list(apply_page_offset(records, offset))
apply_page_offset(records, off) ==
    [k \in 1..Len(records) |->
        <<records[k][1], records[k][2],
          PyInt(StrToInt(records[k][3].val) + off)>>]

-----------------------------------------------------------------------------
(* tree_ize *)

\* get_matching_prfx with startswith the wrong way round
get_matching_prfx_swapped(parent_rec, records) ==
    SelectSeq(records, LAMBDA r : StartsWith(parent_rec[1], r[1]))

\* get_matching_prfx that takes only strictly longer chapter numbers
get_matching_prfx_proper(parent_rec, records) ==
    SelectSeq(records, LAMBDA r : StartsWith(r[1], parent_rec[1])
                                    /\ r[1] # parent_rec[1])

\* get_matching_prfx(parent_rec, records)
get_matching_prfx(parent_rec, records) ==
    SelectSeq(records, LAMBDA r : StartsWith(r[1], parent_rec[1]))

\* A find_children a caller supplies in place of the default: the records
\* below the parent in the dotted path ("1" has "1.1" and "1.10", not "10")
get_matching_dotted(parent_rec, records) ==
    SelectSeq(records, LAMBDA r : StartsWith(r[1], parent_rec[1] \o <<".">>))

Policies == {"get_matching_prfx", "get_matching_dotted"}

\* find_children(parent, records), find_children given by name
call_find_children(fc, parent, records) ==
    IF fc = "get_matching_prfx" THEN get_matching_prfx(parent, records)
    ELSE get_matching_dotted(parent, records)

\* records.remove(child): the first element equal to child goes
list_remove(records, child) ==
    LET i == CHOOSE i \in 1..Len(records) :
                 records[i] = child /\ \A j \in 1..(i - 1) : records[j] # child
    IN  SubSeq(records, 1, i - 1) \o SubSeq(records, i + 1, Len(records))

\* the loop over the children left out: the children stay in records
remove_children_none(records, children) == records

RECURSIVE remove_children(_, _)
\* for child in children: records.remove(child)
remove_children(records, children) ==
    IF Len(children) = 0 THEN records
    ELSE remove_children(list_remove(records, Head(children)), Tail(children))

\* The find_children the recursive call of tree_ize runs with
recursive_find_children(fc) == "get_matching_prfx"

RECURSIVE tree_ize(_, _)
\* tuple(tree_ize(records, find_children)); a node is <<data, children>>
tree_ize(records, fc) ==
    IF Len(records) = 0 THEN <<>>
    ELSE LET parent == Head(records)
             popped == Tail(records)
             children == call_find_children(fc, parent, popped)
             rest == remove_children(popped, children)
         IN  <<<<parent, tree_ize(children, recursive_find_children(fc))>>>>
                 \o tree_ize(rest, fc)

-----------------------------------------------------------------------------
(* pdfmark_toc *)

RECURSIVE deep_len(_)
deep_len(t) ==
    IF Len(t) = 0 THEN 0
    ELSE 1 + deep_len(Head(t)[2]) + deep_len(Tail(t))

\* pdfmark_line counting all descendants instead of the direct children
pdfmark_line_deep(data, children) ==
    IF Len(children) = 0
    THEN <<"[/Title (">> \o data[1] \o <<": ">> \o data[2]
             \o <<") /Page ">> \o PyFormat(data[3]) \o <<" /OUT pdfmark\n">>
    ELSE <<"[/Count -">> \o IntToStr(deep_len(children))
             \o <<" /Title (">> \o data[1] \o <<": ">> \o data[2]
             \o <<") /Page ">> \o PyFormat(data[3]) \o <<" /OUT pdfmark\n">>

\* The line pdfmark_toc yields for a node
pdfmark_line(data, children) ==
    IF Len(children) = 0
    THEN <<"[/Title (">> \o data[1] \o <<": ">> \o data[2]
             \o <<") /Page ">> \o PyFormat(data[3]) \o <<" /OUT pdfmark\n">>
    ELSE <<"[/Count -">> \o IntToStr(Len(children))
             \o <<" /Title (">> \o data[1] \o <<": ">> \o data[2]
             \o <<") /Page ">> \o PyFormat(data[3]) \o <<" /OUT pdfmark\n">>

RECURSIVE pdfmark_toc_children_first(_)
\* pdfmark_toc with the two yields of the else branch exchanged
pdfmark_toc_children_first(t) ==
    IF Len(t) = 0 THEN <<>>
    ELSE LET data == Head(t)[1]
             children == Head(t)[2]
         IN  (IF Len(children) = 0 THEN <<>>
              ELSE pdfmark_toc_children_first(children))
                 \o <<pdfmark_line(data, children)>>
                 \o pdfmark_toc_children_first(Tail(t))

RECURSIVE pdfmark_toc(_)
\* list(pdfmark_toc(tree))
pdfmark_toc(t) ==
    IF Len(t) = 0 THEN <<>>
    ELSE LET data == Head(t)[1]
             children == Head(t)[2]
         IN  <<pdfmark_line(data, children)>>
                 \o (IF Len(children) = 0 THEN <<>> ELSE pdfmark_toc(children))
                 \o pdfmark_toc(Tail(t))

-----------------------------------------------------------------------------
(* splitfiles and wite_pdfmark_file *)

\* list(range(start, stop, step)) for start <= stop; step 0 raises ValueError
py_range(start, stop, step) ==
    IF step = 0 THEN [raised |-> TRUE, val |-> <<>>]
    ELSE IF step < 0 THEN [raised |-> FALSE, val |-> <<>>]
    ELSE [raised |-> FALSE,
          val |-> [k \in 1..((stop - start + step - 1) \div step) |->
                      start + (k - 1) * step]]

\* l[a:b] for 0 <= a <= b
py_slice(l, a, b) == SubSeq(l, a + 1, IF b < Len(l) THEN b ELSE Len(l))

\* splitfiles with the slice one too long: l[i:i+n+1]
splitfiles_overlap(l, n) ==
    LET r == py_range(0, Len(l), n)
    IN  [raised |-> r.raised,
         val |-> [k \in 1..Len(r.val) |->
                     <<r.val[k], py_slice(l, r.val[k], r.val[k] + n + 1)>>]]

\* list(splitfiles(l, n)): the <<index, chunk>> pairs, or the exception
splitfiles(l, n) ==
    LET r == py_range(0, Len(l), n)
    IN  [raised |-> r.raised,
         val |-> [k \in 1..Len(r.val) |->
                     <<r.val[k], py_slice(l, r.val[k], r.val[k] + n)>>]]

RECURSIVE write_chunks(_, _, _)
\* the for loop of wite_pdfmark_file: open(outfile+str(index), "w") and
\* writelines(linechunk), chunk after chunk
write_chunks(files, name, chunks) ==
    IF Len(chunks) = 0 THEN files
    ELSE write_chunks((name \o IntToStr(Head(chunks)[1]) :> Head(chunks)[2])
                          @@ files,
                      name, Tail(chunks))

\* wite_pdfmark_file(tree, outfile, chunksize) on the files `files`:
\* the lines it computes, the files after it, and whether it raised
wite_pdfmark_file(files, t, out, chunk) ==
    IF out.type = "NoneType"
    THEN [lines |-> <<>>, fs |-> files, raised |-> FALSE]
    ELSE LET ls == pdfmark_toc(t)
         IN  IF chunk.type = "NoneType"
             THEN [lines |-> ls, fs |-> (out.val :> ls) @@ files,
                   raised |-> FALSE]
             ELSE LET sp == splitfiles(ls, StrToInt(chunk.val))
                  IN  [lines |-> ls,
                       fs |-> write_chunks(files, out.val, sp.val),
                       raised |-> sp.raised]

-----------------------------------------------------------------------------
(* Inputs *)

BoundedSeqs(S, n) == UNION {[1..k -> S] : k \in 0..n}

\* Lines of a toc file: with a chapter number, with a leading-zero page, with
\* an appendix letter, with a leading blank, without a number, with a number
\* and no title, without a page
TocLines ==
    { <<"1", " ", "a", " ", "2">>,
      <<"1", ".", "1", " ", "b", " ", "0", "3">>,
      <<"A", ".", " ", "c", " ", "4">>,
      <<" ", "d", " ", "5">>,
      <<"e", " ", "6">>,
      <<"1", " ", "0", "7">>,
      <<"2", " ", "g", " ">> }

Offsets == {-1, 0, 1}

ChapterNums ==
    { <<>>, <<"1">>, <<"1", ".", "1">>, <<"1", ".", "1", "0">>,
      <<"1", "0">>, <<"2">> }

Titles == { <<"a">>, <<"b">> }

Records == {<<n, t, PyInt(1)>> : n \in ChapterNums, t \in Titles}

\* The chunksize argument: absent, or the text of a number
ChunkSizes == {None} \cup {PyStr(IntToStr(n)) : n \in -1..MaxChunk}

\* The outfile and chunksize arguments main passes on from the command
\* line: a chunksize can only follow an outfile
WriteArgs ==
    {<<None, None>>} \cup {<<PyStr(<<"o", "u", "t">>), c>> : c \in ChunkSizes}

-----------------------------------------------------------------------------
(* The tokenizer and the page offset: main, line 214 *)

InitTokenize ==
    /\ pc = "tokenize"
    /\ file \in BoundedSeqs(TocLines, MaxLines)
    /\ pos = 0
    /\ prev_num = <<>>
    /\ cnt = 1
    /\ recs = <<>>
    /\ offset = 0
    /\ flat = <<>>
    /\ find_children = "get_matching_prfx"
    /\ tree = <<>>
    /\ lines = <<>>
    /\ outfile = None
    /\ chunksize = None
    /\ fs = <<>>

\* The locals of tokenize before a pass of the loop
TokState == [prev_num |-> prev_num, cnt |-> cnt]

\* One pass of the for loop that ends in the state st
LoopPass(st) ==
    /\ pos' = pos + 1
    /\ prev_num' = st.prev_num
    /\ cnt' = st.cnt
    /\ recs' = recs \o st.out
    /\ UNCHANGED <<pc, file, offset, flat>>
    /\ UNCHANGED treevars

MatchPrimary ==
    /\ pc = "tokenize"
    /\ pos < Len(file)
    /\ reg_match(file[pos + 1]) # NoMatch
    /\ LoopPass(primary_branch(TokState, file[pos + 1]))

MatchFallback ==
    /\ pc = "tokenize"
    /\ pos < Len(file)
    /\ reg_match(file[pos + 1]) = NoMatch
    /\ alt_match(file[pos + 1]) # NoMatch
    /\ LoopPass(fallback_branch(TokState, file[pos + 1]))

SkipLine ==
    /\ pc = "tokenize"
    /\ pos < Len(file)
    /\ reg_match(file[pos + 1]) = NoMatch
    /\ alt_match(file[pos + 1]) = NoMatch
    /\ LoopPass(skip_branch(TokState, file[pos + 1]))

ApplyPageOffset ==
    /\ pc = "tokenize"
    /\ pos = Len(file)
    /\ \E off \in Offsets :
        /\ offset' = off
        /\ flat' = apply_page_offset(recs, off)
    /\ pc' = "flat"
    /\ UNCHANGED <<file, pos, prev_num, cnt, recs>>
    /\ UNCHANGED treevars

NextTokenize == MatchPrimary \/ MatchFallback \/ SkipLine \/ ApplyPageOffset

SpecTokenize == InitTokenize /\ [][NextTokenize]_vars

-----------------------------------------------------------------------------
(* The tree builder, the emitter and the writer: main, lines 215-216 *)

InitTree ==
    /\ pc = "flat"
    /\ flat \in BoundedSeqs(Records, MaxRecs)
    /\ file = <<>>
    /\ pos = 0
    /\ prev_num = <<>>
    /\ cnt = 1
    /\ recs = <<>>
    /\ offset = 0
    /\ find_children = "get_matching_prfx"
    /\ tree = <<>>
    /\ lines = <<>>
    /\ outfile = None
    /\ chunksize = None
    /\ fs = <<>>

\* tuple(tree_ize(flat, find_children)): by main with the default, or by
\* a caller with a find_children of its own
TreeIze ==
    /\ pc = "flat"
    /\ \E fc \in Policies :
        /\ find_children' = fc
        /\ tree' = tree_ize(flat, fc)
    /\ pc' = "tree"
    /\ UNCHANGED <<flat, lines, outfile, chunksize, fs>>
    /\ UNCHANGED tokvars

\* main, line 216, after tree = tuple(tree_ize(flat)) of line 215
WritePdfmarkFile ==
    /\ pc = "tree"
    /\ find_children = "get_matching_prfx"
    /\ \E args \in WriteArgs :
        LET w == wite_pdfmark_file(fs, tree, args[1], args[2])
        IN  /\ outfile' = args[1]
            /\ chunksize' = args[2]
            /\ lines' = w.lines
            /\ fs' = w.fs
            /\ pc' = IF w.raised THEN "raised" ELSE "written"
    /\ UNCHANGED <<flat, find_children, tree>>
    /\ UNCHANGED tokvars

NextTree == TreeIze \/ WritePdfmarkFile

SpecTree == InitTree /\ [][NextTree]_vars

-----------------------------------------------------------------------------
(* Properties of the tokenizer and the page offset (SpecTokenize) *)

\* What the two patterns make of each line of TocLines
LineKind ==
    [l \in TocLines |->
        IF reg_match(l) # NoMatch THEN "primary"
        ELSE IF alt_match(l) # NoMatch THEN "fallback"
        ELSE "skipped"]

IsPrimary(line) == LineKind[line] = "primary"

IsFallback(line) == LineKind[line] = "fallback"

IsSkipped(line) == LineKind[line] = "skipped"

Max(S) == CHOOSE x \in S : \A y \in S : x >= y

\* The last line before line k that matched the primary pattern, 0 if none
LastPrimary(k) == Max({0} \cup {j \in 1..(k - 1) : IsPrimary(file[j])})

\* The chapter number of that line
PrevNumBefore(k) ==
    IF LastPrimary(k) = 0 THEN <<>> ELSE reg_match(file[LastPrimary(k)])[1]

\* The fallback-matched lines between that line and line k
FallbacksBefore(k) ==
    Cardinality({j \in (LastPrimary(k) + 1)..(k - 1) : IsFallback(file[j])})

\* The place in recs of the record line k yielded
YieldIndex(k) == Cardinality({j \in 1..k : ~IsSkipped(file[j])})

\* C5: a line that fails the primary pattern and matches the fallback
\* pattern yields the chapter number prev_num + "." + cnt, prev_num being
\* the number of the last earlier primary match ("" if none) and cnt one
\* more than the number of fallback matches since; so the subcounter is 1
\* after a primary match and grows by one with each fallback match.
C5_FallbackNumbering ==
    /\ Len(recs) = YieldIndex(pos)
    /\ \A k \in 1..pos :
          IsFallback(file[k]) =>
              recs[YieldIndex(k)][1] =
                  PrevNumBefore(k) \o <<".">> \o IntToStr(1 + FallbacksBefore(k))
    /\ prev_num = PrevNumBefore(pos + 1)
    /\ cnt = 1 + FallbacksBefore(pos + 1)

\* Two fallback lines in a row after a primary line, and a fallback line
\* before any primary line, were tokenized
C5_Witness ==
    /\ pos = Len(file)
    /\ \E k \in 1..pos :
          IsFallback(file[k]) /\ LastPrimary(k) > 0 /\ FallbacksBefore(k) = 1
    /\ \E k \in 1..pos : IsFallback(file[k]) /\ LastPrimary(k) = 0

\* C6: a line that matches neither pattern yields nothing and leaves
\* prev_num and cnt alone: after any number of lines, the records yielded
\* and the tokenizer state are those of the same lines with the unmatched
\* ones taken out.
C6_SkippedLineIsNeutral ==
    LET kept == SelectSeq(SubSeq(file, 1, pos), LAMBDA l : ~IsSkipped(l))
        t == tokenize(kept)
    IN  /\ recs = t.out
        /\ prev_num = t.prev_num
        /\ cnt = t.cnt

\* An unmatched line between two fallback lines was read, and the file was
\* read to its end
C6_Witness ==
    /\ pos = Len(file)
    /\ \E i, j, k \in 1..pos :
          /\ i < j /\ j < k
          /\ IsFallback(file[i]) /\ IsSkipped(file[j]) /\ IsFallback(file[k])
    /\ Len(recs) = 2

\* s without its leading zeros, the last digit kept
RECURSIVE StripZeros(_)
StripZeros(s) ==
    IF Len(s) > 1 /\ s[1] = "0" THEN StripZeros(Tail(s)) ELSE s

\* Python's == on two page values: a str and an int are never equal
PyEq(a, b) == a.type = b.type /\ a.val = b.val

\* C7, as claimed: apply_page_offset with offset 0 yields the records of
\* the tokenizer unchanged: as many, in the same order, each equal to its
\* input record in chapter number, title and page.
C7_OffsetZeroIsIdentity ==
    (pc = "flat" /\ offset = 0) =>
        /\ Len(flat) = Len(recs)
        /\ \A k \in 1..Len(recs) :
              /\ flat[k][1] = recs[k][1]
              /\ flat[k][2] = recs[k][2]
              /\ PyEq(flat[k][3], recs[k][3])

\* C7, amended: apply_page_offset with offset 0 yields as many records, in
\* the same order, each with the chapter number and the title of its input
\* record; the page is the int that the input record's page string denotes
\* (its decimal form is that string without leading zeros).
C7_OffsetZeroKeepsAllButPageType ==
    (pc = "flat" /\ offset = 0) =>
        /\ Len(flat) = Len(recs)
        /\ \A k \in 1..Len(recs) :
              /\ flat[k][1] = recs[k][1]
              /\ flat[k][2] = recs[k][2]
              /\ recs[k][3].type = "str"
              /\ flat[k][3].type = "int"
              /\ IntToStr(flat[k][3].val) = StripZeros(recs[k][3].val)

\* Offset 0 was applied to two or more records, one with a leading-zero
\* page and one without
C7_Witness ==
    /\ pc = "flat"
    /\ offset = 0
    /\ Len(recs) >= 2
    /\ \E k \in 1..Len(recs) : recs[k][3].val[1] = "0"
    /\ \E k \in 1..Len(recs) : recs[k][3].val[1] # "0"

-----------------------------------------------------------------------------
(* Properties of the tree builder, the emitter and the writer (SpecTree) *)

Range(s) == {s[i] : i \in 1..Len(s)}

Count(x, s) == Cardinality({i \in 1..Len(s) : s[i] = x})

\* p is a prefix of s, element by element
IsPrefixOf(p, s) == Len(p) <= Len(s) /\ \A i \in 1..Len(p) : p[i] = s[i]

RECURSIVE PreorderData(_)
\* The records of a forest, each node before its children
PreorderData(t) ==
    IF Len(t) = 0 THEN <<>>
    ELSE <<t[1][1]>> \o PreorderData(t[1][2]) \o PreorderData(Tail(t))

RECURSIVE Paths(_)
\* The nodes of a forest, each named by the child indices that lead to it
Paths(t) ==
    UNION {{<<i>>} \cup {<<i>> \o q : q \in Paths(t[i][2])} : i \in 1..Len(t)}

RECURSIVE NodeAt(_, _)
NodeAt(t, p) == IF Len(p) = 1 THEN t[p[1]] ELSE NodeAt(t[p[1]][2], Tail(p))

\* p comes before q in depth-first pre-order: p is an ancestor of q, or
\* they part at some depth and p takes the earlier sibling there
PathBefore(p, q) ==
    /\ p # q
    /\ \/ IsPrefixOf(p, q)
       \/ \E k \in 1..Len(p) :
             /\ k <= Len(q)
             /\ \A j \in 1..(k - 1) : p[j] = q[j]
             /\ p[k] < q[k]

\* The place of each node in the pre-order traversal of t, from 1
Rank(t) ==
    LET ps == Paths(t)
    IN  [p \in ps |-> 1 + Cardinality({q \in ps : PathBefore(q, p)})]

TreeBuilt == pc # "flat"

DefaultPolicy == find_children = "get_matching_prfx"

\* C1: the forest tree_ize returns with the default policy holds exactly
\* the input records: flattened in pre-order it has the length of the
\* input, and every record occurs in it as often as in the input.
C1_TreeKeepsRecords ==
    (TreeBuilt /\ DefaultPolicy) =>
        LET d == PreorderData(tree)
        IN  /\ Len(d) = Len(flat)
            /\ \A r \in Range(flat) \cup Range(d) : Count(r, d) = Count(r, flat)

\* Three records, two of them equal, were built into a forest with a child
C1_Witness ==
    /\ TreeBuilt /\ DefaultPolicy
    /\ Len(flat) = 3
    /\ \E i, j \in 1..3 : i < j /\ flat[i] = flat[j]
    /\ \E p \in Paths(tree) : Len(p) = 2

\* C8, as claimed: with the default policy every child's chapter number
\* has its parent's chapter number as a proper prefix (a prefix, and
\* strictly shorter).
C8_ChildProperPrefix ==
    (TreeBuilt /\ DefaultPolicy) =>
        \A p \in Paths(tree) :
            LET node == NodeAt(tree, p)
            IN  \A c \in 1..Len(node[2]) :
                    /\ IsPrefixOf(node[1][1], node[2][c][1][1])
                    /\ Len(node[1][1]) < Len(node[2][c][1][1])

\* The chapter numbers of the input are pairwise distinct
DistinctNums == \A i, j \in 1..Len(flat) : flat[i][1] = flat[j][1] => i = j

\* C8, amended: with the default policy every child's chapter number has
\* its parent's chapter number as a prefix; the prefix is proper when the
\* chapter numbers of the input are pairwise distinct (of records with the
\* same chapter number the later ones become children of the first).
C8_ChildPrefix ==
    (TreeBuilt /\ DefaultPolicy) =>
        \A p \in Paths(tree) :
            LET node == NodeAt(tree, p)
            IN  \A c \in 1..Len(node[2]) :
                    /\ IsPrefixOf(node[1][1], node[2][c][1][1])
                    /\ DistinctNums =>
                           Len(node[1][1]) < Len(node[2][c][1][1])

\* A forest was built in which one child has its parent's chapter number
\* and another child a longer one
C8_Witness ==
    /\ TreeBuilt /\ DefaultPolicy
    /\ \E p \in Paths(tree) :
          LET node == NodeAt(tree, p)
          IN  \E c, e \in 1..Len(node[2]) :
                  /\ node[2][c][1][1] = node[1][1]
                  /\ Len(node[2][e][1][1]) > Len(node[1][1])

\* The data of the top-level nodes, in order
TopData == [k \in 1..Len(tree) |-> tree[k][1]]

\* C9, as claimed: with the default policy a record is the data of a
\* top-level node if and only if no other record of the input, wherever
\* it is listed, has a chapter number that is a prefix of its own.
C9_TopLevelIffNoPrefixAnywhere ==
    (TreeBuilt /\ DefaultPolicy) =>
        \A i \in 1..Len(flat) :
            (flat[i] \in Range(TopData)) <=>
                ~\E j \in 1..Len(flat) :
                    j # i /\ IsPrefixOf(flat[j][1], flat[i][1])

\* No record listed before record i has a chapter number that is a prefix
\* of the chapter number of record i
NoEarlierPrefix(i) ==
    ~\E j \in 1..(i - 1) : IsPrefixOf(flat[j][1], flat[i][1])

\* C9, amended: with the default policy the top-level nodes are, in input
\* order, the records that no record listed earlier in the input is a
\* prefix of (in chapter number); the result depends on the input order.
C9_TopLevelIffNoEarlierPrefix ==
    (TreeBuilt /\ DefaultPolicy) =>
        /\ Len(TopData) = Cardinality({i \in 1..Len(flat) : NoEarlierPrefix(i)})
        /\ \A i \in 1..Len(flat) :
              NoEarlierPrefix(i) =>
                  TopData[Cardinality({j \in 1..i : NoEarlierPrefix(j)})]
                      = flat[i]

\* A subchapter listed before its chapter: both became top-level nodes,
\* and a record listed after a record with the same number became a child
C9_Witness ==
    /\ TreeBuilt /\ DefaultPolicy
    /\ Len(flat) = 3
    /\ Len(tree) = 2
    /\ IsPrefixOf(flat[2][1], flat[1][1]) /\ flat[2][1] # flat[1][1]
    /\ flat[3][1] = flat[2][1]

\* find_children(parent, ...) selects the record child
Selects(fc, parent, child) ==
    Len(call_find_children(fc, parent, <<child>>)) = 1

\* C10: the find_children given to tree_ize decides the grouping at every
\* depth: every parent/child link of the result, not only those of the
\* top-level nodes, is one that find_children selected.
C10_PolicyAtEveryDepth ==
    TreeBuilt =>
        \A p \in Paths(tree) :
            LET node == NodeAt(tree, p)
            IN  \A c \in 1..Len(node[2]) :
                    Selects(find_children, node[1], node[2][c][1])

\* wite_pdfmark_file ran with an outfile, so that lines was computed
LinesEmitted == pc \in {"written", "raised"} /\ outfile.type = "str"

\* The place of the fragment frag in a line, 0 if it has none
FragmentAt(line, frag) ==
    IF \E i \in 1..Len(line) : line[i] = frag
    THEN CHOOSE i \in 1..Len(line) : line[i] = frag
    ELSE 0

\* The number a line carries between "[/Count -" and " /Title ("
CountField(line) ==
    StrToNat(SubSeq(line, 2, FragmentAt(line, " /Title (") - 1))

\* C2: the line emitted for a node with k >= 1 direct children carries
\* "/Count -k", k the number of its direct children and not of all its
\* descendants; the line emitted for a node without children carries no
\* /Count field.
C2_CountIsDirectChildren ==
    LinesEmitted =>
        LET rank == Rank(tree)
        IN  \A p \in DOMAIN rank :
                LET node == NodeAt(tree, p)
                    line == lines[rank[p]]
                IN  IF Len(node[2]) >= 1
                    THEN /\ line[1] = "[/Count -"
                         /\ CountField(line) = Len(node[2])
                    ELSE /\ FragmentAt(line, "[/Count -") = 0
                         /\ line[1] = "[/Title ("

\* Lines were emitted for a node with one child and two descendants, for
\* a node with two children, and for a leaf
C2_Witness ==
    /\ LinesEmitted
    /\ \E p \in Paths(tree) :
          Len(NodeAt(tree, p)[2]) = 1 /\ deep_len(NodeAt(tree, p)[2]) = 2
    /\ \E p \in Paths(tree) : Len(NodeAt(tree, p)[2]) = 0

\* C3: the lines of pdfmark_toc are the depth-first pre-order traversal of
\* the forest: one line per node, the line of a node at the node's place
\* in pre-order, so before the lines of its descendants, which follow it
\* without a gap (deep_len of its children many), and sibling subtrees in
\* the order of the siblings.
C3_LinesArePreorder ==
    LinesEmitted =>
        LET rank == Rank(tree)
        IN  /\ Len(lines) = Cardinality(DOMAIN rank)
            /\ Len(lines) = deep_len(tree)
            /\ \A p \in DOMAIN rank :
                  LET node == NodeAt(tree, p)
                      last == rank[p] + deep_len(node[2])
                  IN  /\ lines[rank[p]] = pdfmark_line(node[1], node[2])
                      /\ \A q \in DOMAIN rank :
                            (q # p /\ IsPrefixOf(p, q)) <=>
                                (rank[p] < rank[q] /\ rank[q] <= last)

\* Lines were emitted for a forest whose first node has a child and is
\* followed by a sibling
C3_Witness ==
    /\ LinesEmitted
    /\ Len(tree) >= 2
    /\ Len(tree[1][2]) >= 1
    /\ lines[1] # lines[2] /\ lines[2] # lines[3] /\ lines[1] # lines[3]

RECURSIVE ReadChunks(_, _, _)
\* The files outfile+str(i), outfile+str(i+1), ..., outfile+str(last) that
\* exist, one after the other
ReadChunks(name, i, last) ==
    IF i > last THEN <<>>
    ELSE (IF name \o IntToStr(i) \in DOMAIN fs
          THEN fs[name \o IntToStr(i)] ELSE <<>>)
             \o ReadChunks(name, i + 1, last)

\* wite_pdfmark_file ran with an outfile and a chunk size
Chunked == LinesEmitted /\ chunksize.type = "str"

\* C4, as claimed: for every chunk size n >= 0 the chunks written to
\* outfile+index, read in ascending index order, are the lines emitted.
C4_ChunksReconstructForNonNegative ==
    (Chunked /\ StrToInt(chunksize.val) >= 0) =>
        ReadChunks(outfile.val, 0, Len(lines)) = lines

\* C4, amended: for every chunk size n >= 1 the writer ends without an
\* exception, writes only files outfile+index of at most n lines each,
\* and these, read in ascending index order, are the lines emitted; with
\* n = 0 splitfiles raises ValueError and nothing is written.
C4_ChunksReconstructForPositive ==
    /\ (Chunked /\ StrToInt(chunksize.val) >= 1) =>
          /\ pc = "written"
          /\ ReadChunks(outfile.val, 0, Len(lines)) = lines
          /\ \A f \in DOMAIN fs :
                /\ \E i \in 0..Len(lines) : f = outfile.val \o IntToStr(i)
                /\ Len(fs[f]) <= StrToInt(chunksize.val)
    /\ (Chunked /\ StrToInt(chunksize.val) = 0) =>
          pc = "raised" /\ DOMAIN fs = {}

\* Three lines were written in chunks of two: a full and a short chunk
C4_Witness ==
    /\ Chunked
    /\ pc = "written"
    /\ StrToInt(chunksize.val) = 2
    /\ Len(lines) = 3
    /\ Cardinality(DOMAIN fs) = 2

====
